---- MODULE Spec2Model ----
(***************************************************************************)
(* Model of src/indicators.py: the indicator engine add_indicators and the *)
(* module-level helper functions it is built from.                          *)
(*                                                                         *)
(* Values.  A float64 is modelled as an exact rational <<n, d>> with d > 0  *)
(* in lowest terms; NaN (pandas' "missing") is <<0, 0>>.  A raw table cell  *)
(* that is text is <<n, d, "str">>, where n/d is what pd.to_numeric parses  *)
(* out of it (<<0, 0, "str">> for unparseable text such as "abc").  A       *)
(* standard deviation is <<n, d, "sqrt">>, the square root of n/d, and a    *)
(* z-score is <<a, b, n, d, "zs">>, (a/b) divided by the square root of     *)
(* n/d.  Rounding of float64 arithmetic is not modelled.                    *)
(*                                                                         *)
(* Containers.  A column is [cls, v]: cls is the Python class of the object *)
(* ("Series" for pandas.Series, "ndarray" for numpy.ndarray) and v the      *)
(* sequence of its values.  The class matters: methods such as .where exist *)
(* on Series only, and a method call on an object without it raises         *)
(* AttributeError, modelled as the container OfError.                       *)
(***************************************************************************)
EXTENDS Integers, Sequences, FiniteSets, TLC

VARIABLES call, ret

vars == <<call, ret>>

----------------------------------------------------------------------------
(* Bounds of the model *)

MaxRows == 2
MaxLen == 3
MaxCells == 2
MaxWindow == 3
MaxSpan == 3

----------------------------------------------------------------------------
(* float64 as exact rationals with NaN *)

NaN == <<0, 0>>

IsNaN(x) == x[2] = 0

Abs(n) == IF n < 0 THEN -n ELSE n

RECURSIVE GCD(_, _)
GCD(a, b) == IF b = 0 THEN a ELSE GCD(b, a % b)

Rat(n, d) ==
  IF d = 0 THEN NaN
  ELSE LET g == GCD(Abs(n), Abs(d))
           s == IF d < 0 THEN -1 ELSE 1
       IN  <<(s * n) \div g, (s * d) \div g>>

Add(a, b) == IF IsNaN(a) \/ IsNaN(b) THEN NaN ELSE Rat(a[1] * b[2] + b[1] * a[2], a[2] * b[2])

Sub(a, b) == IF IsNaN(a) \/ IsNaN(b) THEN NaN ELSE Rat(a[1] * b[2] - b[1] * a[2], a[2] * b[2])

Mul(a, b) == IF IsNaN(a) \/ IsNaN(b) THEN NaN ELSE Rat(a[1] * b[1], a[2] * b[2])

\* 0/0 is NaN.  No call site of the module divides a nonzero value by zero
\* (infinity is not modelled): _rel_spread replaces a zero divisor by NaN
\* first, mids are positive wherever present, and a zero standard deviation
\* comes with a zero numerator.
Div(a, b) == IF IsNaN(a) \/ IsNaN(b) \/ b[1] = 0 THEN NaN ELSE Rat(a[1] * b[2], a[2] * b[1])

\* Comparisons are False whenever an operand is NaN.
Gt(a, b) == ~IsNaN(a) /\ ~IsNaN(b) /\ a[1] * b[2] > b[1] * a[2]

Lt(a, b) == Gt(b, a)

Eq(a, b) == ~IsNaN(a) /\ ~IsNaN(b) /\ a = b

----------------------------------------------------------------------------
(* Containers *)

\* F applied to the value of e: e is evaluated once, however often F uses it.
ByValue(e, F(_)) == CHOOSE y \in {F(x) : x \in {e}} : TRUE

Series(v) == [cls |-> "Series", v |-> v]

NdArray(v) == [cls |-> "ndarray", v |-> v]

OfError == [cls |-> "AttributeError", v |-> <<>>]

IsError(o) == o.cls = "AttributeError"

\* Class of the result of a binary operator: pandas takes priority over numpy.
ResultCls(a, b) == IF a.cls = "Series" \/ b.cls = "Series" THEN "Series" ELSE "ndarray"

\* Elementwise binary operator on two containers of the same length.
Zip(Op(_, _), a0, b0) ==
  ByValue(<<a0, b0>>, LAMBDA ab :
    LET a == ab[1]
        b == ab[2]
    IN  IF IsError(a) \/ IsError(b) THEN OfError
        ELSE [cls |-> ResultCls(a, b), v |-> [i \in DOMAIN a.v |-> Op(a.v[i], b.v[i])]])

\* Elementwise operator with a scalar on the right.
Map1(Op(_, _), a0, k) ==
  ByValue(a0, LAMBDA a :
    IF IsError(a) THEN OfError
    ELSE [cls |-> a.cls, v |-> [i \in DOMAIN a.v |-> Op(a.v[i], k)]])

\* obj.where(cond, other): a method of pandas.Series; numpy.ndarray has no
\* such attribute, so the attribute lookup raises AttributeError.
MethodWhere(obj0, cond0, other) ==
  ByValue(<<obj0, cond0>>, LAMBDA oc :
    LET obj == oc[1]
        cond == oc[2]
    IN  IF IsError(obj) \/ IsError(cond) \/ obj.cls # "Series" THEN OfError
        ELSE Series([i \in DOMAIN obj.v |-> IF cond.v[i] THEN obj.v[i] ELSE other]))

\* np.where(cond, a, b): always builds a new numpy.ndarray.
NpWhere(cond0, a0, b0) ==
  ByValue(<<cond0, a0, b0>>, LAMBDA cab :
    LET cond == cab[1]
        a == cab[2]
        b == cab[3]
    IN  NdArray([i \in DOMAIN cond.v |-> IF cond.v[i] THEN a.v[i] ELSE b.v[i]]))

----------------------------------------------------------------------------
(* Helper functions (vectorised) *)

\* pd.to_numeric(series, errors="coerce")
_to_numeric(series0) ==
  ByValue(series0, LAMBDA series :
    Series([i \in DOMAIN series.v |-> <<series.v[i][1], series.v[i][2]>>]))

Threshold == Rat(3, 2)

Hundred == Rat(100, 1)

Two == Rat(2, 1)

Zero == Rat(0, 1)

_normalize_price_to_prob_ge(x0) ==
  ByValue(_to_numeric(x0), LAMBDA x :
    NpWhere(Map1(LAMBDA a, k : Gt(a, k) \/ Eq(a, k), x, Threshold), Map1(Div, x, Hundred), x))

_normalize_price_to_prob(x0) ==
  ByValue(_to_numeric(x0), LAMBDA x :
    NpWhere(Map1(Gt, x, Threshold), Map1(Div, x, Hundred), x))

_has_book(bid0, ask0) ==
  LET bid == _to_numeric(bid0)
      ask == _to_numeric(ask0)
  IN  Zip(LAMBDA a, b : a /\ b, Map1(Gt, bid, Zero), Map1(Gt, ask, Zero))

_mid(bid, ask) ==
  LET has == _has_book(bid, ask)
      bidp == _normalize_price_to_prob(bid)
      askp == _normalize_price_to_prob(ask)
      mid == Map1(Div, Zip(Add, bidp, askp), Two)
  IN  MethodWhere(mid, has, NaN)

_spread(bid, ask) ==
  LET has == _has_book(bid, ask)
      bidp == _normalize_price_to_prob(bid)
      askp == _normalize_price_to_prob(ask)
      spr == Zip(Sub, askp, bidp)
  IN  MethodWhere(spr, has, NaN)

\* mid.replace(0, np.nan)
ReplaceZero(s0) ==
  ByValue(s0, LAMBDA s : Series([i \in DOMAIN s.v |-> IF s.v[i] = Zero THEN NaN ELSE s.v[i]]))

_rel_spread(mid0, spread0) ==
  IF IsError(mid0) \/ IsError(spread0) THEN OfError
  ELSE LET mid == _to_numeric(mid0)
           spread == _to_numeric(spread0)
       IN  Zip(Div, spread, ReplaceZero(mid))

----------------------------------------------------------------------------
(* Rolling windows: series.rolling(window, min_periods=window) *)

Max2(a, b) == IF a > b THEN a ELSE b

\* Positions of the trailing window that ends at row i.
WindowAt(i, window) == Max2(1, i - window + 1)..i

\* Observations (non-NaN values) of the window.
ObsAt(v, i, window) == {j \in WindowAt(i, window) : ~IsNaN(v[j])}

RECURSIVE SumOver(_, _)
SumOver(v, J) ==
  IF J = {} THEN Zero
  ELSE LET j == CHOOSE k \in J : \A m \in J : k >= m
       IN  Add(v[j], SumOver(v, J \ {j}))

Count(J) == Rat(Cardinality(J), 1)

\* .mean(): NaN until min_periods observations are in the window.
RollingMean(v, window, min_periods) ==
  [i \in DOMAIN v |->
     LET J == ObsAt(v, i, window)
     IN  IF Cardinality(J) < min_periods \/ J = {} THEN NaN
         ELSE Div(SumOver(v, J), Count(J))]

\* Sample variance (ddof = 1) of the observations of the window.
RollingVar(v, window, min_periods) ==
  [i \in DOMAIN v |->
     LET J == ObsAt(v, i, window)
         mean == Div(SumOver(v, J), Count(J))
         sq == [j \in DOMAIN v |-> Mul(Sub(v[j], mean), Sub(v[j], mean))]
     IN  IF Cardinality(J) < min_periods \/ Cardinality(J) - 1 <= 0 THEN NaN
         ELSE Div(SumOver(sq, J), Rat(Cardinality(J) - 1, 1))]

Sqrt(q) == IF IsNaN(q) THEN NaN ELSE <<q[1], q[2], "sqrt">>

\* .std()
RollingStd(v, window, min_periods) ==
  LET var == RollingVar(v, window, min_periods)
  IN  [i \in DOMAIN v |-> Sqrt(var[i])]

RECURSIVE MaxOver(_, _)
MaxOver(v, J) ==
  LET j == CHOOSE k \in J : \A m \in J : k >= m
  IN  IF J = {j} THEN v[j]
      ELSE LET r == MaxOver(v, J \ {j}) IN IF Gt(v[j], r) THEN v[j] ELSE r

RECURSIVE MinOver(_, _)
MinOver(v, J) ==
  LET j == CHOOSE k \in J : \A m \in J : k >= m
  IN  IF J = {j} THEN v[j]
      ELSE LET r == MinOver(v, J \ {j}) IN IF Lt(v[j], r) THEN v[j] ELSE r

\* .max()
RollingMax(v, window, min_periods) ==
  [i \in DOMAIN v |->
     LET J == ObsAt(v, i, window)
     IN  IF Cardinality(J) < min_periods \/ J = {} THEN NaN ELSE MaxOver(v, J)]

\* .min()
RollingMin(v, window, min_periods) ==
  [i \in DOMAIN v |->
     LET J == ObsAt(v, i, window)
     IN  IF Cardinality(J) < min_periods \/ J = {} THEN NaN ELSE MinOver(v, J)]

\* x / sd for a standard deviation sd: NaN propagates, 0/0 is NaN.
DivStd(x, sd) ==
  IF IsNaN(x) \/ IsNaN(sd) \/ sd[1] = 0 THEN NaN
  ELSE <<x[1], x[2], sd[1], sd[2], "zs">>

_zscore(series, window) ==
  ByValue(_to_numeric(series).v, LAMBDA s :
    ByValue(<<RollingMean(s, window, window), RollingStd(s, window, window)>>, LAMBDA r :
      LET mu == r[1]
          sd == r[2]
      IN  Series([i \in DOMAIN s |-> DivStd(Sub(s[i], mu[i]), sd[i])])))

_rolling_vol(delta_series, window) ==
  ByValue(_to_numeric(delta_series).v, LAMBDA d :
    Series(RollingStd(d, window, window)))

_rolling_range(series, window) ==
  ByValue(_to_numeric(series).v, LAMBDA s :
    ByValue(<<RollingMax(s, window, window), RollingMin(s, window, window)>>, LAMBDA r :
      LET rmax == r[1]
          rmin == r[2]
      IN  Series([i \in DOMAIN s |-> Sub(rmax[i], rmin[i])])))

----------------------------------------------------------------------------
(* Exponentially weighted mean: series.ewm(span=span, adjust=False).mean()  *)
(* with the defaults ignore_na=False and min_periods=0.                      *)

One == Rat(1, 1)

\* State of the ewm recursion after row i: the running value and the weight
\* old_wt that the running value carries into the next observation.
RECURSIVE EwmAt(_, _, _)
EwmAt(v, i, alpha) ==
  IF i = 1 THEN [weighted |-> v[1], old_wt |-> One]
  ELSE ByValue(EwmAt(v, i - 1, alpha), LAMBDA prev :
         LET cur == v[i]
             old_wt == Mul(prev.old_wt, Sub(One, alpha))
         IN  IF ~IsNaN(prev.weighted)
             THEN IF ~IsNaN(cur)
                  THEN [weighted |-> Div(Add(Mul(old_wt, prev.weighted), Mul(alpha, cur)),
                                         Add(old_wt, alpha)),
                        old_wt |-> One]
                  ELSE [weighted |-> prev.weighted, old_wt |-> old_wt]
             ELSE IF ~IsNaN(cur)
                  THEN [weighted |-> cur, old_wt |-> prev.old_wt]
                  ELSE prev)

_ema(series, span) ==
  ByValue(_to_numeric(series).v, LAMBDA s :
    LET alpha == Rat(2, span + 1)
    IN  Series([i \in DOMAIN s |-> EwmAt(s, i, alpha).weighted]))

\* series.diff()
Diff(v) == [i \in DOMAIN v |-> IF i = 1 THEN NaN ELSE Sub(v[i], v[i - 1])]

\* series.shift(lag)
Shift(v, lag) == [i \in DOMAIN v |-> IF i - lag \in DOMAIN v THEN v[i - lag] ELSE NaN]

----------------------------------------------------------------------------
(* Configuration: IndicatorConfig and its defaults *)

DefaultConfig ==
  [z_window |-> 60, vol_window |-> 60, range_window |-> 60, momentum_lag |-> 30,
   ema_fast |-> 10, ema_slow |-> 30, near_bounds_eps |-> Rat(5, 100)]

----------------------------------------------------------------------------
(* Tables.  A DataFrame is [cls, columns, rows]: rows is a sequence of      *)
(* functions from the column names to cells.  A missing ticker is NA.        *)

NA == "<NA>"

DataFrame(columns, rows) == [cls |-> "DataFrame", columns |-> columns, rows |-> rows]

\* df[c]
Col(df, c) == Series([i \in DOMAIN df.rows |-> df.rows[i][c]])

\* df.get(c, np.nan) followed by _to_numeric: an absent column is all-NaN.
GetNumeric(df, c) ==
  IF c \in df.columns THEN _to_numeric(Col(df, c))
  ELSE Series([i \in DOMAIN df.rows |-> NaN])

SecondsPerHour == Rat(3600, 1)

----------------------------------------------------------------------------
(* Core indicator computation per ticker *)

\* Columns assigned by _compute_group_indicators, given that _mid and
\* _spread returned mid_yes, mid_no, spread_yes and spread_no.
GroupColumns(g, cfg, mid_yes, mid_no, spread_yes, spread_no) ==
  LET denom == Zip(Add, mid_yes, mid_no)
      p0 == MethodWhere(Zip(Div, mid_yes, denom), Map1(Gt, denom, Zero), NaN)
      \* p_yes.fillna(mid_yes)
      p_yes == Zip(LAMBDA a, b : IF IsNaN(a) THEN b ELSE a, p0, mid_yes)
      ts == _to_numeric(Col(g, "timestamp"))
      ct == _to_numeric(Col(g, "close_time"))
      volume == GetNumeric(g, "volume")
      open_interest == GetNumeric(g, "open_interest")
      delta_p == Series(Diff(_to_numeric(p_yes).v))
      p == _to_numeric(p_yes)
      eps == cfg.near_bounds_eps
      ema_fast == _ema(p_yes, cfg.ema_fast)
      ema_slow == _ema(p_yes, cfg.ema_slow)
  IN  [has_yes_book |-> _has_book(Col(g, "yes_bid"), Col(g, "yes_ask")),
       has_no_book |-> _has_book(Col(g, "no_bid"), Col(g, "no_ask")),
       mid_yes |-> mid_yes,
       mid_no |-> mid_no,
       spread_yes |-> spread_yes,
       spread_no |-> spread_no,
       rel_spread_yes |-> _rel_spread(mid_yes, spread_yes),
       p_yes |-> p_yes,
       overround |-> Map1(Sub, Zip(Add, mid_yes, mid_no), One),
       tte_hours |-> Map1(Div, Zip(Sub, ct, ts), SecondsPerHour),
       volume |-> volume,
       open_interest |-> open_interest,
       d_volume |-> Series(Diff(volume.v)),
       d_open_interest |-> Series(Diff(open_interest.v)),
       delta_p |-> delta_p,
       z_p |-> _zscore(p_yes, cfg.z_window),
       vol_p |-> _rolling_vol(delta_p, cfg.vol_window),
       range_p |-> _rolling_range(p_yes, cfg.range_window),
       momentum_p |-> Zip(Sub, p, Series(Shift(p.v, cfg.momentum_lag))),
       ema_fast |-> ema_fast,
       ema_slow |-> ema_slow,
       ema_diff |-> Zip(Sub, ema_fast, ema_slow),
       accel_p |-> Series(Diff(delta_p.v)),
       near_bounds |-> Zip(LAMBDA a, b : a \/ b, Map1(Lt, p, eps), Map1(Gt, p, Sub(One, eps))),
       is_unchanged |-> Zip(Eq, p, Series(Shift(p.v, 1)))]

\* An exception raised by a helper leaves the function at that assignment:
\* nothing is returned.
_compute_group_indicators(g, cfg) ==
  ByValue(<<_mid(Col(g, "yes_bid"), Col(g, "yes_ask")),
            _mid(Col(g, "no_bid"), Col(g, "no_ask")),
            _spread(Col(g, "yes_bid"), Col(g, "yes_ask")),
            _spread(Col(g, "no_bid"), Col(g, "no_ask"))>>, LAMBDA m :
    LET mid_yes == m[1]
        mid_no == m[2]
        spread_yes == m[3]
        spread_no == m[4]
    IN  IF IsError(mid_yes) \/ IsError(mid_no) \/ IsError(spread_yes) \/ IsError(spread_no)
        THEN OfError
        ELSE ByValue(GroupColumns(g, cfg, mid_yes, mid_no, spread_yes, spread_no), LAMBDA new :
               LET columns == g.columns \cup DOMAIN new
               IN  DataFrame(columns,
                     [i \in DOMAIN g.rows |->
                        [c \in columns |->
                           IF c \in DOMAIN new THEN new[c].v[i] ELSE g.rows[i][c]]])))

----------------------------------------------------------------------------
(* Public API *)

required == <<"ticker", "timestamp", "close_time", "yes_bid", "yes_ask", "no_bid", "no_ask">>

MissingFirstOnly(df) ==
  LET all == SelectSeq(required, LAMBDA c : c \notin df.columns)
  IN  IF all = <<>> THEN <<>> ELSE <<all[1]>>

\* [c for c in required if c not in df.columns]
Missing(df) == SelectSeq(required, LAMBDA c : c \notin df.columns)

\* Tickers in sort order; a missing ticker sorts last (na_position="last").
TickerOrder == <<"A", "B", NA>>

TickerRank(t) == CHOOSE k \in DOMAIN TickerOrder : TickerOrder[k] = t

\* Sort key order of sort_values(["ticker", "timestamp"]): NaN timestamps last.
KeyLess(r1, r2) ==
  \/ TickerRank(r1["ticker"]) < TickerRank(r2["ticker"])
  \/ /\ r1["ticker"] = r2["ticker"]
     /\ ~IsNaN(r1["timestamp"])
     /\ IsNaN(r2["timestamp"]) \/ Lt(r1["timestamp"], r2["timestamp"])

\* kind="mergesort" is stable: a row goes after every row it is not less than.
RECURSIVE InsertRow(_, _)
InsertRow(sorted0, r) ==
  ByValue(sorted0, LAMBDA sorted :
    IF sorted = <<>> THEN <<r>>
    ELSE IF KeyLess(r, sorted[Len(sorted)])
         THEN Append(InsertRow(SubSeq(sorted, 1, Len(sorted) - 1), r), sorted[Len(sorted)])
         ELSE Append(sorted, r))

RECURSIVE SortRows(_)
SortRows(rows) ==
  IF rows = <<>> THEN <<>>
  ELSE InsertRow(SortRows(SubSeq(rows, 1, Len(rows) - 1)), rows[Len(rows)])

\* df_sorted["timestamp"] = _to_numeric(df_sorted["timestamp"])
NumericTimestamp(df) ==
  DataFrame(df.columns,
    [i \in DOMAIN df.rows |->
       [df.rows[i] EXCEPT !["timestamp"] = _to_numeric(Col(df, "timestamp")).v[i]]])

\* groupby("ticker"): one group per ticker value, in key order; rows whose
\* ticker is missing belong to no group (dropna=True is the default).
GroupKeys(df) ==
  SelectSeq(TickerOrder, LAMBDA t : t # NA /\ \E i \in DOMAIN df.rows : df.rows[i]["ticker"] = t)

Group(df, t) == DataFrame(df.columns, SelectSeq(df.rows, LAMBDA r : r["ticker"] = t))

RECURSIVE ConcatRows(_)
ConcatRows(frames) ==
  IF frames = <<>> THEN <<>>
  ELSE ConcatRows(SubSeq(frames, 1, Len(frames) - 1)) \o frames[Len(frames)].rows

\* .apply(f) with group_keys=False: f on every group, results concatenated;
\* an exception raised by f ends the call.
Apply(df, cfg) ==
  ByValue(GroupKeys(df), LAMBDA keys :
    ByValue([k \in DOMAIN keys |->
               ByValue(Group(df, keys[k]), LAMBDA g : _compute_group_indicators(g, cfg))],
            LAMBDA parts :
      IF \E k \in DOMAIN parts : IsError(parts[k]) THEN OfError
      ELSE IF parts = <<>> THEN DataFrame(df.columns, <<>>)
      ELSE DataFrame(parts[1].columns, ConcatRows(parts))))

add_indicators(df, cfg) ==
  ByValue(Missing(df), LAMBDA missing :
    IF missing # <<>>
    THEN [cls |-> "ValueError", missing |-> missing, reached |-> <<"validate">>]
    ELSE ByValue(DataFrame(df.columns, SortRows(NumericTimestamp(df).rows)), LAMBDA df_sorted :
           ByValue(Apply(df_sorted, cfg), LAMBDA out :
             IF IsError(out)
             THEN [cls |-> "AttributeError",
                   reached |-> <<"validate", "sort", "groupby", "apply">>]
             ELSE out @@ [reached |-> <<"validate", "sort", "groupby", "apply", "return">>])))

----------------------------------------------------------------------------
Init ==
  /\ call = [fn |-> "none"]
  /\ ret = [cls |-> "none", v |-> <<>>]

Idle == call.fn = "none"

Cells == {NaN, <<0, 0, "str">>, <<63, 1, "str">>, Rat(0, 1), Rat(1, 2), Rat(3, 2),
          Rat(8, 5), Rat(2, 1), Rat(40, 1), Rat(60, 1)}

\* Values of a probability series.
Probs == {NaN, Rat(1, 2), Rat(3, 5), Rat(7, 10)}

\* All sequences over S of length at most n.
RECURSIVE SeqsUpTo(_, _)
SeqsUpTo(S, n) ==
  IF n = 0 THEN {<<>>}
  ELSE LET shorter == SeqsUpTo(S, n - 1)
       IN  shorter \cup {Append(s, x) : s \in {t \in shorter : Len(t) = n - 1}, x \in S}

\* Input rows: ticker, timestamp and the four quotes vary; every table that
\* has a column has it in all its rows.
Timestamps == {Rat(1, 1), Rat(2, 1), <<0, 0, "str">>}

QuoteSets ==
  {[yes_bid |-> Rat(40, 1), yes_ask |-> Rat(60, 1), no_bid |-> Rat(38, 1), no_ask |-> Rat(62, 1)],
   [yes_bid |-> Rat(0, 1), yes_ask |-> Rat(60, 1), no_bid |-> Rat(2, 5), no_ask |-> Rat(3, 5)],
   [yes_bid |-> Rat(2, 5), yes_ask |-> Rat(3, 5), no_bid |-> NaN, no_ask |-> <<0, 0, "str">>]}

RowPool ==
  {[ticker |-> t, timestamp |-> ts, close_time |-> Rat(7200, 1)] @@ q :
     t \in {"A", "B", NA}, ts \in Timestamps, q \in QuoteSets}

Restrict(r, columns) == [c \in columns |-> r[c]]

\* Tables of up to MaxRows rows; a table that lacks columns has at most one.
Tables ==
  {DataFrame(columns, [i \in DOMAIN rows |-> Restrict(rows[i], columns)]) :
     <<columns, rows>> \in
        ({{required[k] : k \in DOMAIN required}} \X SeqsUpTo(RowPool, MaxRows))
        \cup ((SUBSET {required[k] : k \in DOMAIN required}) \X SeqsUpTo(RowPool, 1))}

Configs ==
  {DefaultConfig,
   [z_window |-> 2, vol_window |-> 2, range_window |-> 2, momentum_lag |-> 1,
    ema_fast |-> 1, ema_slow |-> 2, near_bounds_eps |-> Rat(5, 100)]}

CallAddIndicators ==
  /\ Idle
  /\ \E df \in Tables, cfg \in Configs :
       /\ call' = [fn |-> "add_indicators", df |-> df, cfg |-> cfg]
       /\ ret' = add_indicators(df, cfg)

CallNormalize ==
  /\ Idle
  /\ \E x \in SeqsUpTo(Cells, MaxCells) :
       /\ call' = [fn |-> "_normalize_price_to_prob", x |-> x]
       /\ ret' = _normalize_price_to_prob(Series(x))

CallHasBook ==
  /\ Idle
  /\ \E bid \in Cells, ask \in Cells :
       /\ call' = [fn |-> "_has_book", bid |-> <<bid>>, ask |-> <<ask>>]
       /\ ret' = _has_book(Series(<<bid>>), Series(<<ask>>))

CallMid ==
  /\ Idle
  /\ \E bid \in Cells, ask \in Cells :
       /\ call' = [fn |-> "_mid", bid |-> <<bid>>, ask |-> <<ask>>]
       /\ ret' = _mid(Series(<<bid>>), Series(<<ask>>))

CallSpread ==
  /\ Idle
  /\ \E bid \in Cells, ask \in Cells :
       /\ call' = [fn |-> "_spread", bid |-> <<bid>>, ask |-> <<ask>>]
       /\ ret' = _spread(Series(<<bid>>), Series(<<ask>>))

CallZscore ==
  /\ Idle
  /\ \E p \in SeqsUpTo(Probs, MaxLen), window \in 1..MaxWindow :
       /\ call' = [fn |-> "_zscore", series |-> p, window |-> window]
       /\ ret' = _zscore(Series(p), window)

CallRollingVol ==
  /\ Idle
  /\ \E p \in SeqsUpTo(Probs, MaxLen), window \in 1..MaxWindow :
       /\ call' = [fn |-> "_rolling_vol", p |-> p, series |-> Diff(p), window |-> window]
       /\ ret' = _rolling_vol(Series(Diff(p)), window)

CallRollingRange ==
  /\ Idle
  /\ \E p \in SeqsUpTo(Probs, MaxLen), window \in 1..MaxWindow :
       /\ call' = [fn |-> "_rolling_range", series |-> p, window |-> window]
       /\ ret' = _rolling_range(Series(p), window)

CallEma ==
  /\ Idle
  /\ \E p \in SeqsUpTo(Probs, MaxLen), span \in 1..MaxSpan :
       /\ call' = [fn |-> "_ema", series |-> p, span |-> span]
       /\ ret' = _ema(Series(p), span)

Next ==
  \/ CallAddIndicators
  \/ CallNormalize
  \/ CallMid
  \/ CallSpread
  \/ CallZscore
  \/ CallRollingVol
  \/ CallRollingRange
  \/ CallEma
  \/ CallHasBook

Spec == Init /\ [][Next]_vars

----------------------------------------------------------------------------
(* Vocabulary of the properties *)

RequiredSet == {required[k] : k \in DOMAIN required}

\* A call of add_indicators on a table that has every required column.
ValidCall == call.fn = "add_indicators" /\ RequiredSet \subseteq call.df.columns

Returned == ret.cls = "DataFrame"

\* The input rows as add_indicators reads them (timestamp coerced to a number).
InRows == NumericTimestamp(call.df).rows

OnInput(r) == [c \in call.df.columns |-> r[c]]

DerivedOf(r) == [c \in (DOMAIN r) \ call.df.columns |-> r[c]]

Occurrences(rows, r) == Cardinality({i \in DOMAIN rows : OnInput(rows[i]) = r})

\* The time-ordered partition of ticker t, and its rows in the output.
InPartition(t) == SelectSeq(SortRows(InRows), LAMBDA r : r["ticker"] = t)

OutPartition(t) == SelectSeq(ret.rows, LAMBDA r : r["ticker"] = t)

NotABool(x) == x # TRUE /\ x # FALSE

Numeric(c) == c[2] # 0

Positive(c) == Numeric(c) /\ c[1] > 0

\* c / 100 when c > 1.5, else c, written out on numerators and denominators.
Normalized(c) == IF 2 * c[1] > 3 * c[2] THEN Rat(c[1], 100 * c[2]) ELSE Rat(c[1], c[2])

AllPresent(v) == \A i \in DOMAIN v : ~IsNaN(v[i])

----------------------------------------------------------------------------
(* Properties *)

\* C1: for every input table that has all seven required columns, whatever
\* the values in its rows, add_indicators returns a table with exactly one
\* output row per input row: no row is dropped and none is duplicated.
C1_OneRowPerInputRow ==
  ValidCall =>
    /\ Returned
    /\ Len(ret.rows) = Len(call.df.rows)
    /\ \A i \in DOMAIN InRows :
         Occurrences(ret.rows, InRows[i]) = Occurrences(InRows, InRows[i])

\* C2: if any required column is absent, add_indicators fails with a
\* validation error that lists every absent required column, and it fails
\* before sorting, grouping or computing anything: no table is returned.
C2_ValidationListsEveryAbsentColumn ==
  (call.fn = "add_indicators" /\ ~(RequiredSet \subseteq call.df.columns)) =>
    /\ ret.cls = "ValueError"
    /\ \A c \in RequiredSet :
         c \notin call.df.columns <=> \E k \in DOMAIN ret.missing : ret.missing[k] = c
    /\ Len(ret.missing) = Cardinality(RequiredSet \ call.df.columns)
    /\ ret.reached = <<"validate">>

\* C2 witness: a one-row table lacking several required columns was rejected.
C2_Witness ==
  /\ call.fn = "add_indicators"
  /\ Len(call.df.rows) = 1
  /\ ret.cls = "ValueError"
  /\ Len(ret.missing) >= 3

\* C3: every derived value at row i of a ticker's time-ordered partition is
\* a function only of the rows at positions <= i of that partition: the
\* engine run on those rows alone produces the same derived values at row i
\* as the run on the whole table (later rows and other tickers do not count).
C3_NoLookaheadNoCrossTicker ==
  ValidCall =>
    /\ Returned
    /\ \A t \in {"A", "B"} : \A i \in DOMAIN InPartition(t) :
         LET alone == add_indicators(
                        DataFrame(call.df.columns, SubSeq(InPartition(t), 1, i)), call.cfg)
         IN  /\ alone.cls = "DataFrame"
             /\ Len(OutPartition(t)) = Len(InPartition(t))
             /\ DerivedOf(alone.rows[i]) = DerivedOf(OutPartition(t)[i])

\* C4: in the output of add_indicators the rows of each ticker are in
\* non-decreasing order of numeric timestamp, and rows of one ticker with
\* equal timestamps keep the relative order they had in the input.
C4_SortedAndStable ==
  ValidCall =>
    /\ Returned
    /\ \A t \in {"A", "B"} :
         LET out == OutPartition(t)
         IN  /\ Len(out) = Len(InPartition(t))
             /\ \A i, j \in DOMAIN out :
                  (i < j /\ ~IsNaN(out[i]["timestamp"]) /\ ~IsNaN(out[j]["timestamp"]))
                    => ~Gt(out[i]["timestamp"], out[j]["timestamp"])
             /\ \A k \in DOMAIN out :
                  LET Tied(r) == r["ticker"] = t /\ r["timestamp"] = out[k]["timestamp"]
                      tiedOut == SelectSeq(out, Tied)
                      tiedIn == SelectSeq(InRows, Tied)
                  IN  [n \in DOMAIN tiedOut |-> OnInput(tiedOut[n])] = tiedIn

\* C5: at every row where p_yes is missing, delta_p, z_p, range_p,
\* momentum_p, near_bounds and is_unchanged are all missing: none is
\* defaulted to a number or to false.
C5_MissingPropagates ==
  ValidCall =>
    /\ Returned
    /\ \A i \in DOMAIN ret.rows :
         IsNaN(ret.rows[i]["p_yes"]) =>
           /\ IsNaN(ret.rows[i]["delta_p"])
           /\ IsNaN(ret.rows[i]["z_p"])
           /\ IsNaN(ret.rows[i]["range_p"])
           /\ IsNaN(ret.rows[i]["momentum_p"])
           /\ NotABool(ret.rows[i]["near_bounds"])
           /\ NotABool(ret.rows[i]["is_unchanged"])

\* C6: for a series p present at every one of its N rows and a window W
\* with 1 <= W <= N, each of z_p, vol_p (over delta_p = p.diff()) and
\* range_p is missing at exactly the first W-1 rows, and at every later row
\* it is present and equals its formula over the W rows ending there.
C6_WarmUpIsWindowMinusOne ==
  LET W == call.window
      Win(i) == (i - W + 1)..i
      MeanAt(v, i) == Div(SumOver(v, Win(i)), Rat(W, 1))
      VarAt(v, i) ==
        Div(SumOver([j \in DOMAIN v |-> Mul(Sub(v[j], MeanAt(v, i)), Sub(v[j], MeanAt(v, i)))],
                    Win(i)),
            Rat(W - 1, 1))
      Rolling == call.fn \in {"_zscore", "_rolling_range", "_rolling_vol"}
      p == IF call.fn = "_rolling_vol" THEN call.p ELSE call.series
  IN  (Rolling /\ AllPresent(p) /\ W <= Len(p)) =>
        \A i \in DOMAIN p :
          /\ IsNaN(ret.v[i]) <=> i <= W - 1
          /\ (i >= W /\ call.fn = "_rolling_range") =>
               ret.v[i] = Sub(MaxOver(p, Win(i)), MinOver(p, Win(i)))
          /\ (i >= W /\ call.fn = "_zscore") =>
               ret.v[i] = DivStd(Sub(p[i], MeanAt(p, i)), Sqrt(VarAt(p, i)))
          /\ (i >= W /\ call.fn = "_rolling_vol") =>
               ret.v[i] = Sqrt(VarAt(call.series, i))

\* C7: for every row, p_yes equals mid_yes / (mid_yes + mid_no) when both
\* mids are present and their sum is positive; otherwise p_yes equals
\* mid_yes when mid_yes is present; p_yes is missing exactly when mid_yes is.
C7_ProbabilityEstimate ==
  ValidCall =>
    /\ Returned
    /\ \A i \in DOMAIN ret.rows :
         LET my == ret.rows[i]["mid_yes"]
             mn == ret.rows[i]["mid_no"]
             py == ret.rows[i]["p_yes"]
         IN  /\ (~IsNaN(my) /\ ~IsNaN(mn) /\ Gt(Add(my, mn), Zero)) => py = Div(my, Add(my, mn))
             /\ (~IsNaN(my) /\ ~(~IsNaN(mn) /\ Gt(Add(my, mn), Zero))) => py = my
             /\ IsNaN(py) <=> IsNaN(my)

\* C8: has_book is true iff both quotes are numeric and strictly positive;
\* mid is the average of the normalized bid and ask and spread is normalized
\* ask minus normalized bid exactly where has_book is true, and both are
\* missing everywhere else.
C8_BookMidSpread ==
  LET bid == call.bid[1]
      ask == call.ask[1]
      has == Positive(bid) /\ Positive(ask)
  IN  /\ call.fn = "_has_book" => (ret.cls = "Series" /\ ret.v[1] = has)
      /\ call.fn = "_mid" =>
           /\ ret.cls = "Series"
           /\ ret.v[1] = IF has THEN Div(Add(Normalized(bid), Normalized(ask)), Two) ELSE NaN
      /\ call.fn = "_spread" =>
           /\ ret.cls = "Series"
           /\ ret.v[1] = IF has THEN Sub(Normalized(ask), Normalized(bid)) ELSE NaN

\* C9: the price normalizer maps every quote value on its own: a numeric
\* value above 1.5 to value/100, a numeric value of at most 1.5 (1.5
\* included) to itself, a missing or non-numeric value to missing; it never
\* raises.
C9_NormalizerPerValue ==
  call.fn = "_normalize_price_to_prob" =>
    /\ ret.cls = "ndarray"
    /\ Len(ret.v) = Len(call.x)
    /\ \A i \in DOMAIN call.x :
         LET c == call.x[i]
             y == ret.v[i]
         IN  /\ (Numeric(c) /\ 2 * c[1] > 3 * c[2]) =>
                  (~IsNaN(y) /\ 100 * y[1] * c[2] = c[1] * y[2])
             /\ (Numeric(c) /\ 2 * c[1] <= 3 * c[2]) =>
                  (~IsNaN(y) /\ y[1] * c[2] = c[1] * y[2])
             /\ ~Numeric(c) => IsNaN(y)

\* C9 witness: exactly 1.5 stayed 1.5 next to a cents quote that was divided.
C9_Witness ==
  /\ call.fn = "_normalize_price_to_prob"
  /\ call.x = <<Rat(3, 2), Rat(40, 1)>>
  /\ ret.v = <<Rat(3, 2), Rat(2, 5)>>

\* C10: within a series p, the EMA with alpha = 2/(span+1) equals p at the
\* first row where p is present, satisfies
\* ema[i] = alpha * p[i] + (1 - alpha) * ema[i-1] at every later row where
\* p[i] is present, and is non-missing from that first row to the end.
C10_EmaRecurrence ==
  call.fn = "_ema" =>
    LET p == call.series
        alpha == Rat(2, call.span + 1)
        Seen(i) == \E j \in 1..i : ~IsNaN(p[j])
        First(i) == ~IsNaN(p[i]) /\ ~Seen(i - 1)
    IN  \A i \in DOMAIN p :
          /\ First(i) => ret.v[i] = p[i]
          /\ (~IsNaN(p[i]) /\ Seen(i - 1)) =>
               ret.v[i] = Add(Mul(alpha, p[i]), Mul(Sub(One, alpha), ret.v[i - 1]))
          /\ Seen(i) => ~IsNaN(ret.v[i])

\* C11: in the output of add_indicators every output row carries, in the
\* seven required input columns, exactly the values of one of the input
\* rows: the engine adds derived columns and rewrites no input field.
C11_InputColumnsUnchanged ==
  ValidCall =>
    /\ Returned
    /\ \A i \in DOMAIN ret.rows :
         \E j \in DOMAIN call.df.rows : OnInput(ret.rows[i]) = call.df.rows[j]

\* C12: add_indicators applied to its own output with the same configuration
\* returns a table, and that table has the same rows in the same order with
\* the same value in every derived column as the first application produced.
C12_Idempotent ==
  ValidCall =>
    /\ Returned
    /\ LET again == add_indicators(DataFrame(ret.columns, ret.rows), call.cfg)
       IN  /\ again.cls = "DataFrame"
           /\ Len(again.rows) = Len(ret.rows)
           /\ \A i \in DOMAIN ret.rows : DerivedOf(again.rows[i]) = DerivedOf(ret.rows[i])

\* A row whose four quotes are numeric and strictly positive: both the YES
\* book and the NO book exist.
BothBooks(r) ==
  /\ r["ticker"] # NA
  /\ Positive(r["yes_bid"]) /\ Positive(r["yes_ask"])
  /\ Positive(r["no_bid"]) /\ Positive(r["no_ask"])

\* C13: for a table with a row where both books exist, add_indicators returns
\* a table, and at every output row where has_yes_book and has_no_book are
\* true p_yes is present and strictly between 0 and 1.
C13_ProbabilityStrictlyInside ==
  (ValidCall /\ \E j \in DOMAIN call.df.rows : BothBooks(call.df.rows[j])) =>
    /\ Returned
    /\ \A i \in DOMAIN ret.rows :
         (ret.rows[i]["has_yes_book"] = TRUE /\ ret.rows[i]["has_no_book"] = TRUE) =>
           /\ ~IsNaN(ret.rows[i]["p_yes"])
           /\ Gt(ret.rows[i]["p_yes"], Zero)
           /\ Lt(ret.rows[i]["p_yes"], One)

====
